---- MODULE Spec2Model ----
(***************************************************************************)
(* State-machine model of the useDoctorFinder hook                         *)
(* (src/src/hooks/useDoctorFinder.ts): the fetch effect, the filter state  *)
(* and its mutators, the URL-sync effect and the derived views.            *)
(*                                                                         *)
(* Representation.                                                         *)
(*  - A JavaScript string whose characters matter (names, search text, fee *)
(*    and experience texts) is a sequence of one-character strings;        *)
(*    strings that are only compared for equality (criteria, consultation  *)
(*    modes, specialty names, messages) are TLA+ strings.                  *)
(*  - A JavaScript number that may be non-finite is a pair <<tag, n>>:     *)
(*    <<"num", n>>, <<"inf", 1>>, <<"inf", -1>> or <<"nan", 0>>.           *)
(*  - URLSearchParams is a record giving, for each key, the values of that *)
(*    key in their order of occurrence in the query string; get, getAll,   *)
(*    set and append observe nothing else.                                 *)
(*  - A JavaScript Set is an insertion-ordered, duplicate-free sequence.   *)
(***************************************************************************)
EXTENDS Integers, Sequences, FiniteSets, TLC

VARIABLES
    rawData,               \* the response body read by fetchData, <<>> before
    allDoctors,            \* useState<Doctor[]>([])
    isLoading,             \* useState<boolean>(true)
    error,                 \* useState<string | null>(null)
    searchParams,          \* the query string of the page's URL
    searchTerm,            \* FilterState.searchTerm
    consultationType,      \* FilterState.consultationType
    selectedSpecialties,   \* FilterState.specialties (a Set)
    sortOptions,           \* FilterState.sortOptions
    fetchPc,               \* position of the fetch effect: mount, awaiting, done
    syncPending,           \* the URL-sync effect is scheduled and has not run
    lastOp,                \* the callback that ran last, with its argument
    localSearchTerm,       \* Navbar: the text shown in the search input
    showSuggestions,       \* Navbar: useState(false)
    activeSuggestionIndex, \* Navbar: useState(-1)
    timers,                \* the values of the pending setTimeout callbacks
    debounceTimerRef,      \* Navbar: null, or the referenced timer's status
    navbarSyncPending,     \* the Navbar's searchTerm effect is scheduled
    lastInput,             \* the value of the last change of the search input
    searchCleared          \* clearFilters ran; no input change or submit since

vars == <<rawData, allDoctors, isLoading, error, searchParams, searchTerm,
          consultationType, selectedSpecialties, sortOptions, fetchPc,
          syncPending, lastOp, localSearchTerm, showSuggestions,
          activeSuggestionIndex, timers, debounceTimerRef, navbarSyncPending,
          lastInput, searchCleared>>

navbarVars == <<localSearchTerm, showSuggestions, activeSuggestionIndex, timers,
                debounceTimerRef, navbarSyncPending, lastInput, searchCleared>>

FilterState == <<searchTerm, consultationType, selectedSpecialties, sortOptions>>

----------------------------------------------------------------------------
(* Bounds *)

MaxParams == 2      \* parameters in a query string the page is opened with
MaxDoctors == 2     \* records in a fetched collection
MaxQueryDoctors == 4    \* records in a collection the derived views are run on
MaxTextLen == 3     \* characters in an enumerated fee or experience text

----------------------------------------------------------------------------
(* Values *)

Null == "<null>"
EmptyStr == <<>>
Criteria == {"fees", "experience"}
ConsultationModes == {"Video Consult", "In Clinic"}

Range(s) == {s[i] : i \in 1..Len(s)}

Num(n) == <<"num", n>>
Infinity == <<"inf", 1>>
NaN == <<"nan", 0>>

Digits == <<"0", "1", "2", "3", "4", "5", "6", "7", "8", "9">>
IsDigit(c) == \E i \in 1..10 : Digits[i] = c
DigitValue(c) == (CHOOSE i \in 1..10 : Digits[i] = c) - 1

\* value of a run of decimal digits
RECURSIVE DigitsValue(_)
DigitsValue(ds) ==
    IF ds = <<>> THEN 0
    ELSE 10 * DigitsValue(SubSeq(ds, 1, Len(ds) - 1)) + DigitValue(ds[Len(ds)])

\* the longest prefix of s made of decimal digits
RECURSIVE LeadingDigits(_)
LeadingDigits(s) ==
    IF s = <<>> \/ ~IsDigit(Head(s)) THEN <<>>
    ELSE <<Head(s)>> \o LeadingDigits(Tail(s))

\* parseInt(s, 10) for a text without leading white space or sign
parseInt(s) ==
    IF LeadingDigits(s) = <<>> THEN NaN ELSE Num(DigitsValue(LeadingDigits(s)))

\* parseFee without the replace of the characters other than digits and '.'
parseFee_noReplace(feeString) ==
    IF feeString = EmptyStr THEN Infinity
    ELSE LET fee == parseInt(feeString)
         IN  IF fee = NaN THEN Infinity ELSE fee

\* parseFee removing the decimal point together with the other characters
parseFee_stripPoint(feeString) ==
    IF feeString = EmptyStr THEN Infinity
    ELSE LET numberString == SelectSeq(feeString, IsDigit)
             fee == parseInt(numberString)
         IN  IF fee = NaN THEN Infinity ELSE fee

\* parseFee (lines 21-27)
parseFee(feeString) ==
    IF feeString = EmptyStr THEN Infinity
    ELSE LET numberString == SelectSeq(feeString, LAMBDA c : IsDigit(c) \/ c = ".")
             fee == parseInt(numberString)
         IN  IF fee = NaN THEN Infinity ELSE fee

\* the first maximal run of decimal digits of s (the match of /\d+/), or <<>>
RECURSIVE FirstDigitRun(_)
FirstDigitRun(s) ==
    IF s = <<>> THEN <<>>
    ELSE IF IsDigit(Head(s)) THEN LeadingDigits(s)
    ELSE FirstDigitRun(Tail(s))

\* parseExperience reading the number at the start of the text only
parseExperience_leading(expString) ==
    IF expString = EmptyStr THEN 0
    ELSE LET match == LeadingDigits(expString)
         IN  IF match = <<>> THEN 0 ELSE DigitsValue(match)

\* parseExperience (lines 35-41)
parseExperience(expString) ==
    IF expString = EmptyStr THEN 0
    ELSE LET match == FirstDigitRun(expString)
         IN  IF match = <<>> THEN 0 ELSE DigitsValue(match)

----------------------------------------------------------------------------
(* JavaScript arithmetic on possibly non-finite numbers *)

\* x - y
JsSub(x, y) ==
    IF x[1] = "nan" \/ y[1] = "nan" THEN NaN
    ELSE IF x[1] = "inf" /\ y[1] = "inf"
         THEN IF x[2] = y[2] THEN NaN ELSE x
    ELSE IF x[1] = "inf" THEN x
    ELSE IF y[1] = "inf" THEN <<"inf", 0 - y[2]>>
    ELSE Num(x[2] - y[2])

----------------------------------------------------------------------------
(* Record normalisation: the body of rawData.map in fetchData.  The fields *)
(* copied verbatim and read by no derived view (initials, photo,           *)
(* introduction, languages, clinic) are left out of both record shapes.    *)

consultationModesOf(rawDoc) ==
    (IF rawDoc.video_consult THEN <<"Video Consult">> ELSE <<>>)
    \o (IF rawDoc.in_clinic THEN <<"In Clinic">> ELSE <<>>)

\* throws with a TypeError also raised for a fee text without a number
throws_unparseable(rawDoc) ==
    \/ "specialities" \notin DOMAIN rawDoc
    \/ parseFee(rawDoc.fees) = Infinity

\* the map callback throws: rawDoc.specialities.map on a record that has no
\* specialities (line 103)
throws(rawDoc) == "specialities" \notin DOMAIN rawDoc

processDoctor(rawDoc) ==
    [id |-> rawDoc.id,
     name |-> rawDoc.name,
     specialityNames |-> rawDoc.specialities,
     parsedFees |-> parseFee(rawDoc.fees),
     parsedExperience |-> parseExperience(rawDoc.experience),
     consultationModes |-> consultationModesOf(rawDoc),
     video_consult |-> rawDoc.video_consult,
     in_clinic |-> rawDoc.in_clinic]

processedDoctors(data) == [i \in 1..Len(data) |-> processDoctor(data[i])]

----------------------------------------------------------------------------
(* URLSearchParams *)

EmptyParams == [search |-> <<>>, consultation |-> <<>>, specialty |-> <<>>, sort |-> <<>>]

getAll(params, key) == params[key]

\* set: the key keeps a single occurrence, with the given value
set(params, key, value) == [params EXCEPT ![key] = <<value>>]

append(params, key, value) == [params EXCEPT ![key] = Append(@, value)]

RECURSIVE appendEach(_, _, _)
appendEach(params, key, values) ==
    IF values = <<>> THEN params
    ELSE appendEach(append(params, key, Head(values)), key, Tail(values))

\* new Set(values): first occurrences, in order
RECURSIVE NewSet(_)
NewSet(values) ==
    IF values = <<>> THEN <<>>
    ELSE LET init == NewSet(SubSeq(values, 1, Len(values) - 1))
             last == values[Len(values)]
         IN  IF last \in Range(init) THEN init ELSE Append(init, last)

\* useState initialisers (lines 55-65)
initSearchTerm(params) ==
    IF getAll(params, "search") = <<>> THEN EmptyStr
    ELSE Head(getAll(params, "search"))

initConsultationType(params) ==
    IF getAll(params, "consultation") = <<>> THEN Null
    ELSE IF Head(getAll(params, "consultation")) = "" THEN Null
    ELSE Head(getAll(params, "consultation"))

initSelectedSpecialties(params) == NewSet(getAll(params, "specialty"))

initSortOptions(params) == getAll(params, "sort")

\* urlParamsOf with params.set in place of params.append for the specialties
urlParamsOf_setSpecialty(term, type, specialties, options) ==
    LET p0 == [search |-> <<>>, consultation |-> <<>>, specialty |-> <<>>, sort |-> <<>>]
        p1 == IF term # EmptyStr THEN set(p0, "search", term) ELSE p0
        p2 == IF type # Null /\ type # "" THEN set(p1, "consultation", type) ELSE p1
        p3 == IF specialties = <<>> THEN p2
              ELSE set(p2, "specialty", specialties[Len(specialties)])
    IN  appendEach(p3, "sort", options)

\* urlParamsOf without the test of searchTerm before params.set
urlParamsOf_alwaysSearch(term, type, specialties, options) ==
    LET p0 == [search |-> <<>>, consultation |-> <<>>, specialty |-> <<>>, sort |-> <<>>]
        p1 == set(p0, "search", term)
        p2 == IF type # Null /\ type # "" THEN set(p1, "consultation", type) ELSE p1
        p3 == appendEach(p2, "specialty", specialties)
    IN  appendEach(p3, "sort", options)

\* the parameters built by the URL-sync effect (lines 127-132)
urlParamsOf(term, type, specialties, options) ==
    LET p0 == EmptyParams
        p1 == IF term # EmptyStr THEN set(p0, "search", term) ELSE p0
        p2 == IF type # Null /\ type # "" THEN set(p1, "consultation", type) ELSE p1
        p3 == appendEach(p2, "specialty", specialties)
    IN  appendEach(p3, "sort", options)

----------------------------------------------------------------------------
(* Derived views (useMemo) *)

Lower(c) == IF c = "A" THEN "a" ELSE IF c = "B" THEN "b" ELSE c
toLowerCase(s) == [i \in 1..Len(s) |-> Lower(s[i])]

includes(s, sub) ==
    \E i \in 0..(Len(s) - Len(sub)) : SubSeq(s, i + 1, i + Len(sub)) = sub

\* comparisonOf with the fees operands exchanged
comparisonOf_feesDescending(option, a, b) ==
    IF option = "fees" THEN JsSub(b.parsedFees, a.parsedFees)
    ELSE IF option = "experience" THEN Num(b.parsedExperience - a.parsedExperience)
    ELSE Num(0)

\* the comparison computed for one sort criterion (lines 173-180)
comparisonOf(option, a, b) ==
    IF option = "fees" THEN JsSub(a.parsedFees, b.parsedFees)
    ELSE IF option = "experience" THEN Num(b.parsedExperience - a.parsedExperience)
    ELSE Num(0)

\* compareFn returning 1 when every criterion compared equal
RECURSIVE compareFn_tieOne(_, _, _)
compareFn_tieOne(options, a, b) ==
    IF options = <<>> THEN Num(1)
    ELSE LET comparison == comparisonOf(Head(options), a, b)
         IN  IF comparison # Num(0) THEN comparison
             ELSE compareFn_tieOne(Tail(options), a, b)

\* the comparator passed to doctors.sort (lines 171-190): the first
\* comparison that is !== 0 is returned, NaN included
RECURSIVE compareFn(_, _, _)
compareFn(options, a, b) ==
    IF options = <<>> THEN Num(0)
    ELSE LET comparison == comparisonOf(Head(options), a, b)
         IN  IF comparison # Num(0) THEN comparison
             ELSE compareFn(Tail(options), a, b)

\* Array.prototype.sort's reading of a comparator result (ECMAScript
\* SortCompare): NaN counts as +0; otherwise only the sign is used
SortCompare(v) ==
    IF v[1] = "nan" THEN 0
    ELSE IF v[1] = "inf" THEN v[2]
    ELSE IF v[2] < 0 THEN -1 ELSE IF v[2] > 0 THEN 1 ELSE 0

\* x is inserted after the last element of the sorted prefix that does not
\* compare greater than x
RECURSIVE insertSorted(_, _, _)
insertSorted(sorted, x, options) ==
    IF sorted = <<>> THEN <<x>>
    ELSE IF SortCompare(compareFn(options, sorted[Len(sorted)], x)) <= 0
         THEN Append(sorted, x)
         ELSE Append(insertSorted(SubSeq(sorted, 1, Len(sorted) - 1), x, options),
                     sorted[Len(sorted)])

\* Array.prototype.sort is stable (ECMAScript 2019); the comparator above is
\* a consistent weak order for every options sequence, so the result is the
\* one of any stable sort
RECURSIVE sort(_, _)
sort(doctors, options) ==
    IF doctors = <<>> THEN <<>>
    ELSE insertSorted(sort(SubSeq(doctors, 1, Len(doctors) - 1), options),
                      doctors[Len(doctors)], options)

\* filterDoctors with every in place of some in the specialty stage
filterDoctors_every(doctors, term, type, specialties) ==
    LET d1 == IF term # EmptyStr
              THEN SelectSeq(doctors,
                     LAMBDA doc : includes(toLowerCase(doc.name), toLowerCase(term)))
              ELSE doctors
        d2 == IF type # Null /\ type # ""
              THEN SelectSeq(d1, LAMBDA doc : type \in Range(doc.consultationModes))
              ELSE d1
    IN  IF Len(specialties) > 0
        THEN SelectSeq(d2, LAMBDA doc :
                 \A i \in 1..Len(doc.specialityNames) :
                     doc.specialityNames[i] \in Range(specialties))
        ELSE d2

\* the filter stages of filteredDoctors (lines 149-167)
filterDoctors(doctors, term, type, specialties) ==
    LET d1 == IF term # EmptyStr
              THEN SelectSeq(doctors,
                     LAMBDA doc : includes(toLowerCase(doc.name), toLowerCase(term)))
              ELSE doctors
        d2 == IF type # Null /\ type # ""
              THEN SelectSeq(d1, LAMBDA doc : type \in Range(doc.consultationModes))
              ELSE d1
    IN  IF Len(specialties) > 0
        THEN SelectSeq(d2, LAMBDA doc :
                 \E i \in 1..Len(doc.specialityNames) :
                     doc.specialityNames[i] \in Range(specialties))
        ELSE d2

filteredDoctorsOf(doctors, term, type, specialties, options) ==
    LET filtered == filterDoctors(doctors, term, type, specialties)
    IN  IF Len(options) > 0 THEN sort(filtered, options) ELSE filtered

filteredDoctors ==
    filteredDoctorsOf(allDoctors, searchTerm, consultationType,
                      selectedSpecialties, sortOptions)

\* the UTF-16 code units of the specialty names of the model
CodeUnits(name) ==
    IF name = "Cardiologist"
    THEN <<67, 97, 114, 100, 105, 111, 108, 111, 103, 105, 115, 116>>
    ELSE IF name = "Dentist" THEN <<68, 101, 110, 116, 105, 115, 116>>
    ELSE IF name = "ENT" THEN <<69, 78, 84>>
    ELSE <<>>

\* x < y for two sequences of code units (the order of the default sort)
RECURSIVE CodeUnitsLess(_, _)
CodeUnitsLess(x, y) ==
    IF y = <<>> THEN FALSE
    ELSE IF x = <<>> THEN TRUE
    ELSE IF Head(x) # Head(y) THEN Head(x) < Head(y)
    ELSE CodeUnitsLess(Tail(x), Tail(y))

\* the insertion step of a stable sort without a comparator
RECURSIVE insertString(_, _)
insertString(sorted, x) ==
    IF sorted = <<>> THEN <<x>>
    ELSE IF ~CodeUnitsLess(CodeUnits(x), CodeUnits(sorted[Len(sorted)]))
         THEN Append(sorted, x)
         ELSE Append(insertString(SubSeq(sorted, 1, Len(sorted) - 1), x),
                     sorted[Len(sorted)])

\* Array.prototype.sort() of strings
RECURSIVE sortStrings(_)
sortStrings(names) ==
    IF names = <<>> THEN <<>>
    ELSE insertString(sortStrings(SubSeq(names, 1, Len(names) - 1)),
                      names[Len(names)])

\* the specialityNames of the records, one after the other (the order of
\* the specialties.add calls)
RECURSIVE specialityNamesOf(_)
specialityNamesOf(doctors) ==
    IF doctors = <<>> THEN <<>>
    ELSE Head(doctors).specialityNames \o specialityNamesOf(Tail(doctors))

\* availableSpecialties without the final sort()
availableSpecialties_unsorted == NewSet(specialityNamesOf(allDoctors))

\* the availableSpecialties memo (lines 139-145)
availableSpecialties == sortStrings(NewSet(specialityNamesOf(allDoctors)))

MAX_SUGGESTIONS == 3

IsWhiteSpace(c) == c = " "

\* String.prototype.trim: white space removed at both ends
RECURSIVE trim(_)
trim(s) ==
    IF s = <<>> THEN <<>>
    ELSE IF IsWhiteSpace(Head(s)) THEN trim(Tail(s))
    ELSE IF IsWhiteSpace(s[Len(s)]) THEN trim(SubSeq(s, 1, Len(s) - 1))
    ELSE s

\* Array.prototype.slice(0, end) for end >= 0
slice(s, end) == SubSeq(s, 1, IF end < Len(s) THEN end ELSE Len(s))

\* the suggestions memo (lines 197-204)
suggestionsOf(doctors, term) ==
    IF trim(term) = EmptyStr THEN <<>>
    ELSE slice(SelectSeq(doctors,
                 LAMBDA doc : includes(toLowerCase(doc.name), toLowerCase(term))),
               MAX_SUGGESTIONS)

\* suggestions taken from the filtered and sorted list
suggestions_fromFiltered == suggestionsOf(filteredDoctors, searchTerm)

suggestions == suggestionsOf(allDoctors, searchTerm)

\* DoctorFinderLayout (App.tsx): the flag passed to DoctorList as isLoading
isInitialDataLoading == isLoading /\ Len(allDoctors) = 0

\* renderContent testing the empty list before the loading flag
renderContent_emptyFirst(doctors, loading, err) ==
    IF Len(doctors) = 0 THEN "empty"
    ELSE IF loading THEN "loading"
    ELSE IF err # Null /\ err # "" THEN "error"
    ELSE "list"

\* DoctorListComponent.renderContent: which of the four contents is shown
renderContent(doctors, loading, err) ==
    IF loading THEN "loading"
    ELSE IF err # Null /\ err # "" THEN "error"
    ELSE IF Len(doctors) = 0 THEN "empty"
    ELSE "list"

\* the content of the DoctorList rendered by DoctorFinderLayout
doctorListContent == renderContent(filteredDoctors, isInitialDataLoading, error)

----------------------------------------------------------------------------
(* Inputs *)

SeqsUpTo(S, n) == UNION {[1..k -> S] : k \in 0..n}

\* values a query string may carry
UrlSearchValues == {<<"a">>}
UrlConsultationValues == {"Video Consult", "online"}
UrlSpecialtyValues == {"Dentist"}
UrlSortValues == {"fees", "experience"}

\* the query strings the page may be opened with
QueryStrings ==
    {p \in [search : SeqsUpTo(UrlSearchValues, MaxParams),
            consultation : SeqsUpTo(UrlConsultationValues, MaxParams),
            specialty : SeqsUpTo(UrlSpecialtyValues, MaxParams),
            sort : SeqsUpTo(UrlSortValues, MaxParams)] :
        Len(p.search) + Len(p.consultation) + Len(p.specialty) + Len(p.sort)
            <= MaxParams}

\* the query strings of the history entries Back/Forward may lead to
HistoryEntries ==
    {EmptyParams,
     [search |-> << <<"a">> >>, consultation |-> <<"In Clinic">>,
      specialty |-> <<"ENT", "Dentist">>, sort |-> <<"experience", "fees">>]}

\* arguments the components pass to the handlers
SearchInputs == {EmptyStr, <<"a">>, <<" ">>}
SpecialtyInputs == {"Dentist", "ENT"}

\* raw records the API may return
RawPool ==
    {[id |-> "1", name |-> <<"A", "b">>, specialities |-> <<"Dentist">>,
      fees |-> <<"3", "0", "0">>, experience |-> <<"2">>,
      video_consult |-> TRUE, in_clinic |-> FALSE],
     [id |-> "2", name |-> <<"b", "a">>, specialities |-> <<"Dentist", "ENT">>,
      fees |-> <<"3", "0", "0">>, experience |-> <<"8", " ", "y">>,
      video_consult |-> TRUE, in_clinic |-> TRUE],
     [id |-> "3", name |-> <<"B">>, specialities |-> <<>>,
      fees |-> <<>>, experience |-> <<"1", "0">>,
      video_consult |-> FALSE, in_clinic |-> TRUE],
     [id |-> "4", name |-> <<"a">>, specialities |-> <<"ENT">>,
      fees |-> <<"F", "r", "e", "e">>, experience |-> <<"2">>,
      video_consult |-> FALSE, in_clinic |-> FALSE]}

\* a record the API sends without its specialities
MalformedRecord ==
    [id |-> "6", name |-> <<"a">>, fees |-> <<"3", "0", "0">>,
     experience |-> <<"2">>, video_consult |-> TRUE, in_clinic |-> TRUE]

\* a response body: records with pairwise different identifiers
RawCollections ==
    {c \in SeqsUpTo(RawPool \cup {MalformedRecord}, MaxDoctors) :
        \A i, j \in 1..Len(c) : c[i].id = c[j].id => i = j}

\* the pool with a record whose fee text carries a currency symbol
QueryPool ==
    RawPool \cup
    {[id |-> "5", name |-> <<"a", "B">>, specialities |-> <<"ENT", "Cardiologist">>,
      fees |-> <<"₹", " ", "5", "0">>, experience |-> <<"2">>,
      video_consult |-> TRUE, in_clinic |-> FALSE]}

QueryCollections ==
    {c \in SeqsUpTo(QueryPool, MaxQueryDoctors) :
        \A i, j \in 1..Len(c) : c[i].id = c[j].id => i = j}

\* characters of the enumerated fee and experience texts
TextAlphabet == {"0", "1", "5", "₹", " ", ",", ".", "y"}

\* "₹ 500", "1,200", "1,200.50", "Rs. 500", "13 Years"
SampleTexts ==
    {<<"₹", " ", "5", "0", "0">>,
     <<"1", ",", "2", "0", "0">>,
     <<"1", ",", "2", "0", "0", ".", "5", "0">>,
     <<"R", "s", ".", " ", "5", "0", "0">>,
     <<"1", "3", " ", "Y", "e", "a", "r", "s">>}

Texts == SeqsUpTo(TextAlphabet, MaxTextLen) \cup SampleTexts

ParseRecord(feeText, expText) ==
    [id |-> "1", name |-> <<"a">>, specialities |-> <<"ENT">>,
     fees |-> feeText, experience |-> expText,
     video_consult |-> TRUE, in_clinic |-> FALSE]

\* bodies of one record, with every fee text and every experience text
ParseCollections ==
    {<<ParseRecord(t, <<"2">>)>> : t \in Texts}
    \cup {<<ParseRecord(<<"3", "0", "0">>, t)>> : t \in Texts}

FetchFailures == {"network", "status", "body"}

ErrorMessage(reason) ==
    IF reason = "config"
    THEN "API URL (VITE_PUBLIC_DOCTOR_API) is not defined. Please check your environment variables."
    ELSE IF reason = "status" THEN "HTTP error fetching doctor data! status"
    ELSE IF reason = "network" THEN "Failed to fetch"
    ELSE IF reason = "process"
    THEN "Cannot read properties of undefined (reading 'map')"
    ELSE "Unexpected token in JSON"

----------------------------------------------------------------------------
(* State updaters *)

\* toggleSort adding an absent option at the front
toggleSort_prepend(prev, option) ==
    IF option \in Range(prev)
    THEN SelectSeq(prev, LAMBDA item : item # option)
    ELSE <<option>> \o prev

\* toggleSort removing only the occurrence at indexOf(option)
toggleSort_splice(prev, option) ==
    IF option \in Range(prev)
    THEN LET currentIndex == CHOOSE i \in 1..Len(prev) :
                                 /\ prev[i] = option
                                 /\ \A j \in 1..(i - 1) : prev[j] # option
         IN  SubSeq(prev, 1, currentIndex - 1) \o SubSeq(prev, currentIndex + 1, Len(prev))
    ELSE Append(prev, option)

\* the updater of handleToggleSortOption (lines 233-242)
toggleSort(prev, option) ==
    IF option \in Range(prev)
    THEN SelectSeq(prev, LAMBDA item : item # option)
    ELSE Append(prev, option)

\* the updater of handleToggleSpecialty (lines 220-228)
toggleSet(prev, specialty) ==
    IF specialty \in Range(prev)
    THEN SelectSeq(prev, LAMBDA item : item # specialty)
    ELSE Append(prev, specialty)

Op(name, arg) == [op |-> name, arg |-> arg]

----------------------------------------------------------------------------
(* Construction: the first render of useDoctorFinder *)

InitFrom(params) ==
    /\ rawData = <<>>
    /\ allDoctors = <<>>
    /\ isLoading = TRUE
    /\ error = Null
    /\ searchParams = params
    /\ searchTerm = initSearchTerm(params)
    /\ consultationType = initConsultationType(params)
    /\ selectedSpecialties = initSelectedSpecialties(params)
    /\ sortOptions = initSortOptions(params)
    /\ fetchPc = "mount"
    /\ syncPending = TRUE
    /\ lastOp = Op("init", Null)
    /\ localSearchTerm = initSearchTerm(params)
    /\ showSuggestions = FALSE
    /\ activeSuggestionIndex = -1
    /\ timers = <<>>
    /\ debounceTimerRef = Null
    /\ navbarSyncPending = FALSE
    /\ lastInput = Null
    /\ searchCleared = FALSE

Init == \E params \in QueryStrings : InitFrom(params)

----------------------------------------------------------------------------
(* Effects.  React runs the effects of a render in their order in the      *)
(* component, and always before it processes a later state update: a       *)
(* handler, a fetch completion or a navigation never finds an effect of an *)
(* earlier render still waiting.                                           *)

EffectsFlushed == fetchPc # "mount" /\ ~syncPending

(* The fetch effect (lines 68-123) *)

\* fetchData up to its first await, or to its end when API_URL is not set
fetchData ==
    /\ fetchPc = "mount"
    /\ \E apiUrlDefined \in BOOLEAN :
          IF apiUrlDefined
          THEN /\ isLoading' = TRUE
               /\ error' = Null
               /\ fetchPc' = "awaiting"
               /\ lastOp' = Op("fetchData", "awaiting")
          ELSE /\ isLoading' = FALSE
               /\ error' = ErrorMessage("config")
               /\ fetchPc' = "done"
               /\ lastOp' = Op("fetchData", "config")
    /\ UNCHANGED navbarVars
    /\ UNCHANGED <<rawData, allDoctors, searchParams, searchTerm, consultationType,
                   selectedSpecialties, sortOptions, syncPending>>

\* the response arrived and was read, and rawData.map normalised every
\* record; responses is the set of bodies considered
fetchSucceededFrom(responses) ==
    /\ EffectsFlushed
    /\ fetchPc = "awaiting"
    /\ rawData' \in responses
    /\ \A i \in 1..Len(rawData') : ~throws(rawData'[i])
    /\ allDoctors' = processedDoctors(rawData')
    /\ isLoading' = FALSE
    /\ fetchPc' = "done"
    /\ lastOp' = Op("fetchSucceeded", Null)
    /\ UNCHANGED navbarVars
    /\ UNCHANGED <<error, searchParams, searchTerm, consultationType,
                   selectedSpecialties, sortOptions, syncPending>>

fetchSucceeded == fetchSucceededFrom(RawCollections)

\* processingFailed without the finally block
processingFailed_noFinally ==
    /\ EffectsFlushed
    /\ fetchPc = "awaiting"
    /\ rawData' \in RawCollections
    /\ \E i \in 1..Len(rawData') : throws(rawData'[i])
    /\ error' = ErrorMessage("process")
    /\ fetchPc' = "done"
    /\ lastOp' = Op("processingFailed", Null)
    /\ UNCHANGED navbarVars
    /\ UNCHANGED <<allDoctors, isLoading, searchParams, searchTerm, consultationType,
                   selectedSpecialties, sortOptions, syncPending>>

\* the response arrived and was read, and the map callback threw on a record:
\* setAllDoctors is not reached
processingFailed ==
    /\ EffectsFlushed
    /\ fetchPc = "awaiting"
    /\ rawData' \in RawCollections
    /\ \E i \in 1..Len(rawData') : throws(rawData'[i])
    /\ error' = ErrorMessage("process")
    /\ isLoading' = FALSE
    /\ fetchPc' = "done"
    /\ lastOp' = Op("processingFailed", Null)
    /\ UNCHANGED navbarVars
    /\ UNCHANGED <<allDoctors, searchParams, searchTerm, consultationType,
                   selectedSpecialties, sortOptions, syncPending>>

\* fetchFailed scheduling the fetch effect again
fetchFailed_retry ==
    /\ EffectsFlushed
    /\ fetchPc = "awaiting"
    /\ \E reason \in FetchFailures : error' = ErrorMessage(reason)
    /\ isLoading' = FALSE
    /\ fetchPc' = "mount"
    /\ lastOp' = Op("fetchFailed", Null)
    /\ UNCHANGED navbarVars
    /\ UNCHANGED <<rawData, allDoctors, searchParams, searchTerm, consultationType,
                   selectedSpecialties, sortOptions, syncPending>>

\* fetchFailed without the finally block
fetchFailed_noFinally ==
    /\ EffectsFlushed
    /\ fetchPc = "awaiting"
    /\ \E reason \in FetchFailures : error' = ErrorMessage(reason)
    /\ fetchPc' = "done"
    /\ lastOp' = Op("fetchFailed", Null)
    /\ UNCHANGED navbarVars
    /\ UNCHANGED <<rawData, allDoctors, isLoading, searchParams, searchTerm,
                   consultationType, selectedSpecialties, sortOptions, syncPending>>

\* fetch rejected, the status was not ok, or the body could not be read
fetchFailed ==
    /\ EffectsFlushed
    /\ fetchPc = "awaiting"
    /\ \E reason \in FetchFailures : error' = ErrorMessage(reason)
    /\ isLoading' = FALSE
    /\ fetchPc' = "done"
    /\ lastOp' = Op("fetchFailed", Null)
    /\ UNCHANGED navbarVars
    /\ UNCHANGED <<rawData, allDoctors, searchParams, searchTerm, consultationType,
                   selectedSpecialties, sortOptions, syncPending>>

----------------------------------------------------------------------------
(* The URL-sync effect (lines 126-136) *)

urlSyncEffect ==
    /\ syncPending
    /\ fetchPc # "mount"
    /\ searchParams' = urlParamsOf(searchTerm, consultationType,
                                   selectedSpecialties, sortOptions)
    /\ syncPending' = FALSE
    /\ lastOp' = Op("urlSyncEffect", Null)
    /\ UNCHANGED navbarVars
    /\ UNCHANGED <<rawData, allDoctors, isLoading, error, searchTerm, consultationType,
                   selectedSpecialties, sortOptions, fetchPc>>

\* navigate with the filter state initialised again from the new searchParams
navigate_restore ==
    /\ fetchPc # "mount" /\ ~syncPending
    /\ \E params \in HistoryEntries :
          /\ params # searchParams
          /\ searchParams' = params
          /\ searchTerm' = initSearchTerm(params)
          /\ consultationType' = initConsultationType(params)
          /\ selectedSpecialties' = initSelectedSpecialties(params)
          /\ sortOptions' = initSortOptions(params)
    /\ syncPending' = TRUE
    /\ lastOp' = [op |-> "navigate", arg |-> Null]
    /\ UNCHANGED navbarVars
    /\ UNCHANGED <<rawData, allDoctors, isLoading, error, fetchPc>>

\* Back/Forward navigation to a history entry of the page: the router gives
\* the hook new searchParams.  No effect of the hook depends on searchParams;
\* whether setSearchParams, a dependency of the URL-sync effect, changes
\* identity with them depends on the router version.
navigate ==
    /\ EffectsFlushed
    /\ \E params \in HistoryEntries :
          /\ params # searchParams
          /\ searchParams' = params
    /\ \E rerun \in BOOLEAN : syncPending' = (syncPending \/ rerun)
    /\ lastOp' = Op("navigate", Null)
    /\ UNCHANGED navbarVars
    /\ UNCHANGED <<rawData, allDoctors, isLoading, error, searchTerm, consultationType,
                   selectedSpecialties, sortOptions, fetchPc>>

----------------------------------------------------------------------------
(* Handlers (lines 209-256).  A handler's state updates are committed in   *)
(* one render; the URL-sync effect is scheduled when a dependency changed. *)

handleSetSearchTerm(term) ==
    /\ EffectsFlushed
    /\ searchTerm' = term
    /\ syncPending' = (syncPending \/ term # searchTerm)
    /\ lastOp' = Op("setSearchTerm", term)
    /\ UNCHANGED navbarVars
    /\ UNCHANGED <<rawData, allDoctors, isLoading, error, searchParams, consultationType,
                   selectedSpecialties, sortOptions, fetchPc>>

\* handleSetConsultationType also emptying the specialty set
handleSetConsultationType_clearsSpecialties(type) ==
    /\ EffectsFlushed
    /\ consultationType' = type
    /\ selectedSpecialties' = <<>>
    /\ syncPending' = TRUE
    /\ lastOp' = Op("setConsultationType", type)
    /\ UNCHANGED navbarVars
    /\ UNCHANGED <<rawData, allDoctors, isLoading, error, searchParams, searchTerm,
                   sortOptions, fetchPc>>

handleSetConsultationType(type) ==
    /\ EffectsFlushed
    /\ consultationType' = type
    /\ syncPending' = (syncPending \/ type # consultationType)
    /\ lastOp' = Op("setConsultationType", type)
    /\ UNCHANGED navbarVars
    /\ UNCHANGED <<rawData, allDoctors, isLoading, error, searchParams, searchTerm,
                   selectedSpecialties, sortOptions, fetchPc>>

handleToggleSpecialty(specialty) ==
    /\ EffectsFlushed
    /\ selectedSpecialties' = toggleSet(selectedSpecialties, specialty)
    /\ syncPending' = TRUE
    /\ lastOp' = Op("toggleSpecialty", specialty)
    /\ UNCHANGED navbarVars
    /\ UNCHANGED <<rawData, allDoctors, isLoading, error, searchParams, searchTerm,
                   consultationType, sortOptions, fetchPc>>

handleToggleSortOption(option) ==
    /\ EffectsFlushed
    /\ sortOptions' = toggleSort(sortOptions, option)
    /\ syncPending' = TRUE
    /\ lastOp' = Op("toggleSortOption", option)
    /\ UNCHANGED navbarVars
    /\ UNCHANGED <<rawData, allDoctors, isLoading, error, searchParams, searchTerm,
                   consultationType, selectedSpecialties, fetchPc>>

updateSearchTermFromSuggestion(term) ==
    /\ EffectsFlushed
    /\ searchTerm' = term
    /\ syncPending' = (syncPending \/ term # searchTerm)
    /\ lastOp' = Op("updateSearchTermFromSuggestion", term)
    /\ UNCHANGED navbarVars
    /\ UNCHANGED <<rawData, allDoctors, isLoading, error, searchParams, consultationType,
                   selectedSpecialties, sortOptions, fetchPc>>

\* clearFilters without setSortOptions([])
clearFilters_keepSort ==
    /\ EffectsFlushed
    /\ searchTerm' = EmptyStr
    /\ consultationType' = Null
    /\ selectedSpecialties' = <<>>
    /\ syncPending' = TRUE
    /\ lastOp' = Op("clearFilters", Null)
    /\ UNCHANGED navbarVars
    /\ UNCHANGED <<rawData, allDoctors, isLoading, error, searchParams, fetchPc, sortOptions>>

clearFilters ==
    /\ EffectsFlushed
    /\ searchTerm' = EmptyStr
    /\ consultationType' = Null
    /\ selectedSpecialties' = <<>>
    /\ sortOptions' = <<>>
    /\ syncPending' = TRUE
    /\ lastOp' = Op("clearFilters", Null)
    /\ UNCHANGED navbarVars
    /\ UNCHANGED <<rawData, allDoctors, isLoading, error, searchParams, fetchPc>>

----------------------------------------------------------------------------

Next ==
    \/ fetchData
    \/ fetchSucceeded
    \/ processingFailed
    \/ fetchFailed
    \/ urlSyncEffect
    \/ navigate
    \/ \E term \in SearchInputs : handleSetSearchTerm(term)
    \/ \E type \in ConsultationModes \cup {Null} : handleSetConsultationType(type)
    \/ \E specialty \in SpecialtyInputs : handleToggleSpecialty(specialty)
    \/ \E option \in Criteria : handleToggleSortOption(option)
    \/ \E term \in SearchInputs : updateSearchTermFromSuggestion(term)
    \/ clearFilters

Spec == Init /\ [][Next]_vars

----------------------------------------------------------------------------
(* The page opened without a query string, on larger collections: the     *)
(* derived views under every sequence of handler calls.                    *)

InitQuery == InitFrom(EmptyParams)

fetchSucceededQuery == fetchSucceededFrom(QueryCollections)

NextQuery ==
    \/ fetchData
    \/ fetchSucceededQuery
    \/ urlSyncEffect
    \/ \E term \in SearchInputs : handleSetSearchTerm(term)
    \/ \E type \in ConsultationModes \cup {Null} : handleSetConsultationType(type)
    \/ \E specialty \in SpecialtyInputs : handleToggleSpecialty(specialty)
    \/ \E option \in Criteria : handleToggleSortOption(option)
    \/ \E term \in SearchInputs : updateSearchTermFromSuggestion(term)
    \/ clearFilters

SpecQuery == InitQuery /\ [][NextQuery]_vars

----------------------------------------------------------------------------
(* The page opened without a query string, loading one record with an      *)
(* enumerated fee or experience text: parseFee and parseExperience.        *)

fetchSucceededParse == fetchSucceededFrom(ParseCollections)

NextParse ==
    \/ fetchData
    \/ fetchSucceededParse
    \/ urlSyncEffect

SpecParse == InitQuery /\ [][NextParse]_vars

----------------------------------------------------------------------------
(* The page opened without a query string, loading records whose names     *)
(* contain a space ("A b", "b a"), searched with texts made of or padded   *)
(* with white space: the search stage of filteredDoctors and suggestions.  *)

NamedRecord(id, name, specialities, video) ==
    [id |-> id, name |-> name, specialities |-> specialities,
     fees |-> <<"3", "0", "0">>, experience |-> <<"2">>,
     video_consult |-> video, in_clinic |-> TRUE]

NamedPool ==
    {NamedRecord("1", <<"A", " ", "b">>, <<"Dentist">>, TRUE),
     NamedRecord("2", <<"a">>, <<"ENT">>, FALSE),
     NamedRecord("3", <<"b", " ", "a">>, <<"Dentist", "ENT">>, TRUE),
     NamedRecord("4", <<"a", "b">>, <<>>, FALSE)}

NamedCollections ==
    {c \in SeqsUpTo(NamedPool, MaxQueryDoctors) :
        \A i, j \in 1..Len(c) : c[i].id = c[j].id => i = j}

\* texts typed into the search input: "", " ", "a", " a", "a "
PaddedSearchInputs == {EmptyStr, <<" ">>, <<"a">>, <<" ", "a">>, <<"a", " ">>}

fetchSucceededNamed == fetchSucceededFrom(NamedCollections)

NextSuggest ==
    \/ fetchData
    \/ fetchSucceededNamed
    \/ urlSyncEffect
    \/ \E term \in PaddedSearchInputs : handleSetSearchTerm(term)
    \/ \E type \in ConsultationModes \cup {Null} : handleSetConsultationType(type)
    \/ \E specialty \in SpecialtyInputs : handleToggleSpecialty(specialty)
    \/ \E option \in Criteria : handleToggleSortOption(option)
    \/ clearFilters

SpecSuggest == InitQuery /\ [][NextSuggest]_vars

----------------------------------------------------------------------------
(* The load under fairness.  The mount effect and the URL-sync effect run  *)
(* once scheduled (weak fairness); the fetch resolves or rejects, and its  *)
(* continuation runs although handler calls keep scheduling effects        *)
(* (strong fairness).                                                      *)

fetchCompleted == fetchSucceeded \/ processingFailed \/ fetchFailed

NextLoad ==
    \/ fetchData
    \/ fetchSucceeded
    \/ processingFailed
    \/ fetchFailed
    \/ urlSyncEffect
    \/ \E option \in Criteria : handleToggleSortOption(option)
    \/ clearFilters

SpecLoad ==
    /\ Init
    /\ [][NextLoad]_vars
    /\ WF_fetchPc(fetchData)
    /\ WF_syncPending(urlSyncEffect)
    /\ SF_fetchPc(fetchCompleted)

----------------------------------------------------------------------------
(* The Navbar (src/components/Navbar.tsx) on top of the hook: the search   *)
(* input, its debounce timer, the suggestion list and the keyboard.  The  *)
(* Navbar's searchTerm effect is, like the hook's effects, run before the  *)
(* next update is processed.  debounceTimerRef is null before the first    *)
(* setTimeout; afterwards it holds the identifier of the timer created     *)
(* last, which is pending, cleared or fired.                               *)

NavbarFlushed == EffectsFlushed /\ ~navbarSyncPending

\* values typed into the search input
NavbarInputs == {EmptyStr, <<"a">>, <<"b">>}

Keys == {"Enter", "ArrowUp", "ArrowDown", "Escape"}

\* the hook's state that no Navbar callback assigns
hookVars == <<rawData, allDoctors, isLoading, error, searchParams, consultationType,
              selectedSpecialties, sortOptions, fetchPc>>

\* clearTimeout(debounceTimerRef.current) when the reference is set
timersAfterClear ==
    IF debounceTimerRef = "pending" THEN SubSeq(timers, 1, Len(timers) - 1)
    ELSE timers

refAfterClear ==
    IF debounceTimerRef = "pending" THEN "cleared" ELSE debounceTimerRef

\* handleInputChange without the clearTimeout of the previous timer
handleInputChange_noClear(value) ==
    /\ NavbarFlushed
    /\ value # localSearchTerm
    /\ localSearchTerm' = value
    /\ activeSuggestionIndex' = -1
    /\ timers' = Append(timers, value)
    /\ debounceTimerRef' = "pending"
    /\ showSuggestions' = (Len(value) > 0)
    /\ lastInput' = value
    /\ searchCleared' = FALSE
    /\ lastOp' = Op("inputChange", value)
    /\ UNCHANGED <<searchTerm, syncPending, navbarSyncPending>>
    /\ UNCHANGED hookVars

\* handleInputChange (lines 273-292): the user changed the input's text
handleInputChange(value) ==
    /\ NavbarFlushed
    /\ value # localSearchTerm
    /\ localSearchTerm' = value
    /\ activeSuggestionIndex' = -1
    /\ timers' = Append(timersAfterClear, value)
    /\ debounceTimerRef' = "pending"
    /\ showSuggestions' = (Len(value) > 0)
    /\ lastInput' = value
    /\ searchCleared' = FALSE
    /\ lastOp' = Op("inputChange", value)
    /\ UNCHANGED <<searchTerm, syncPending, navbarSyncPending>>
    /\ UNCHANGED hookVars

\* the oldest pending timer fires: onSearchChange(value), i.e. setSearchTerm
timerFired ==
    /\ NavbarFlushed
    /\ timers # <<>>
    /\ searchTerm' = Head(timers)
    /\ timers' = Tail(timers)
    /\ debounceTimerRef' =
          (IF Len(timers) = 1 /\ debounceTimerRef = "pending" THEN "fired"
           ELSE debounceTimerRef)
    /\ syncPending' = (syncPending \/ Head(timers) # searchTerm)
    /\ navbarSyncPending' = (Head(timers) # searchTerm)
    /\ lastOp' = Op("timerFired", Head(timers))
    /\ UNCHANGED <<localSearchTerm, showSuggestions, activeSuggestionIndex, lastInput, searchCleared>>
    /\ UNCHANGED hookVars

\* the effect on [searchTerm] without its setLocalSearchTerm
navbarSyncEffect_noSet ==
    /\ navbarSyncPending
    /\ fetchPc # "mount"
    /\ navbarSyncPending' = FALSE
    /\ lastOp' = Op("navbarSyncEffect", Null)
    /\ UNCHANGED <<searchTerm, syncPending, localSearchTerm, showSuggestions,
                   activeSuggestionIndex, timers, debounceTimerRef, lastInput,
                   searchCleared>>
    /\ UNCHANGED hookVars

\* the effect on [searchTerm] (lines 243-249)
navbarSyncEffect ==
    /\ navbarSyncPending
    /\ fetchPc # "mount"
    /\ localSearchTerm' = (IF localSearchTerm # searchTerm THEN searchTerm
                           ELSE localSearchTerm)
    /\ navbarSyncPending' = FALSE
    /\ lastOp' = Op("navbarSyncEffect", Null)
    /\ UNCHANGED <<searchTerm, syncPending, showSuggestions, activeSuggestionIndex,
                   timers, debounceTimerRef, lastInput, searchCleared>>
    /\ UNCHANGED hookVars

\* the state updates of handleSuggestionClick(doctorName)
suggestionSubmit_noClear(doctorName) ==
    /\ timers' = timers
    /\ debounceTimerRef' = debounceTimerRef
    /\ localSearchTerm' = doctorName
    /\ searchTerm' = doctorName
    /\ syncPending' = (syncPending \/ doctorName # searchTerm)
    /\ navbarSyncPending' = (doctorName # searchTerm)
    /\ showSuggestions' = FALSE
    /\ activeSuggestionIndex' = -1
    /\ lastOp' = Op("suggestionSubmit", doctorName)
    /\ searchCleared' = FALSE
    /\ UNCHANGED lastInput
    /\ UNCHANGED hookVars

\* the state updates of handleSuggestionClick(doctorName) (lines 296-306)
suggestionSubmit(doctorName) ==
    /\ timers' = timersAfterClear
    /\ debounceTimerRef' = refAfterClear
    /\ localSearchTerm' = doctorName
    /\ searchTerm' = doctorName
    /\ syncPending' = (syncPending \/ doctorName # searchTerm)
    /\ navbarSyncPending' = (doctorName # searchTerm)
    /\ showSuggestions' = FALSE
    /\ activeSuggestionIndex' = -1
    /\ lastOp' = Op("suggestionSubmit", doctorName)
    /\ searchCleared' = FALSE
    /\ UNCHANGED lastInput
    /\ UNCHANGED hookVars

\* a click on the item of the visible suggestion list at index (from 0)
handleSuggestionClick(index) ==
    /\ NavbarFlushed
    /\ showSuggestions
    /\ index < Len(suggestions)
    /\ suggestionSubmit(suggestions[index + 1].name)

\* handleKeyDown (lines 309-348)
handleKeyDown(key) ==
    /\ NavbarFlushed
    /\ IF key = "Enter" /\ (~showSuggestions \/ Len(suggestions) = 0
                               \/ activeSuggestionIndex = -1)
       THEN /\ timers' = timersAfterClear
            /\ debounceTimerRef' = refAfterClear
            /\ searchTerm' = localSearchTerm
            /\ syncPending' = (syncPending \/ localSearchTerm # searchTerm)
            /\ navbarSyncPending' = (localSearchTerm # searchTerm)
            /\ showSuggestions' = FALSE
            /\ lastOp' = Op("enterSubmit", localSearchTerm)
            /\ searchCleared' = FALSE
            /\ UNCHANGED <<localSearchTerm, activeSuggestionIndex, lastInput>>
            /\ UNCHANGED hookVars
       ELSE IF showSuggestions /\ Len(suggestions) > 0
       THEN IF key = "Enter"
            THEN IF activeSuggestionIndex >= 0
                    /\ activeSuggestionIndex < Len(suggestions)
                 THEN suggestionSubmit(suggestions[activeSuggestionIndex + 1].name)
                 ELSE /\ lastOp' = Op("keyDown", key)
                      /\ UNCHANGED <<searchTerm, syncPending>>
                      /\ UNCHANGED navbarVars
                      /\ UNCHANGED hookVars
            ELSE /\ IF key = "ArrowUp"
                    THEN /\ activeSuggestionIndex' =
                               (IF activeSuggestionIndex <= 0
                                THEN Len(suggestions) - 1
                                ELSE activeSuggestionIndex - 1)
                         /\ UNCHANGED showSuggestions
                    ELSE IF key = "ArrowDown"
                    THEN /\ activeSuggestionIndex' =
                               (IF activeSuggestionIndex >= Len(suggestions) - 1
                                THEN 0
                                ELSE activeSuggestionIndex + 1)
                         /\ UNCHANGED showSuggestions
                    ELSE IF key = "Escape"
                    THEN /\ showSuggestions' = FALSE
                         /\ activeSuggestionIndex' = -1
                    ELSE UNCHANGED <<showSuggestions, activeSuggestionIndex>>
                 /\ lastOp' = Op("keyDown", key)
                 /\ UNCHANGED <<searchTerm, syncPending, localSearchTerm, timers,
                                debounceTimerRef, navbarSyncPending, lastInput, searchCleared>>
                 /\ UNCHANGED hookVars
       ELSE /\ lastOp' = Op("keyDown", key)
            /\ UNCHANGED <<searchTerm, syncPending>>
            /\ UNCHANGED navbarVars
            /\ UNCHANGED hookVars

\* handleInputFocus (lines 351-357)
handleInputFocus ==
    /\ NavbarFlushed
    /\ showSuggestions' =
          (IF Len(localSearchTerm) > 0 /\ Len(suggestions) > 0 THEN TRUE
           ELSE showSuggestions)
    /\ lastOp' = Op("inputFocus", Null)
    /\ UNCHANGED <<searchTerm, syncPending, localSearchTerm, activeSuggestionIndex,
                   timers, debounceTimerRef, navbarSyncPending, lastInput, searchCleared>>
    /\ UNCHANGED hookVars

\* handleClickOutside (lines 254-258): a mousedown outside the search box
handleClickOutside ==
    /\ NavbarFlushed
    /\ showSuggestions' = FALSE
    /\ lastOp' = Op("clickOutside", Null)
    /\ UNCHANGED <<searchTerm, syncPending, localSearchTerm, activeSuggestionIndex,
                   timers, debounceTimerRef, navbarSyncPending, lastInput, searchCleared>>
    /\ UNCHANGED hookVars

\* clearFilters called from the FilterPanel while the Navbar is mounted: the
\* hook's updates, and the Navbar's effect when searchTerm changed
onClearFilters ==
    /\ NavbarFlushed
    /\ searchTerm' = EmptyStr
    /\ consultationType' = Null
    /\ selectedSpecialties' = <<>>
    /\ sortOptions' = <<>>
    /\ syncPending' = TRUE
    /\ navbarSyncPending' = (searchTerm # EmptyStr)
    /\ searchCleared' = TRUE
    /\ lastOp' = Op("clearFilters", Null)
    /\ UNCHANGED <<localSearchTerm, showSuggestions, activeSuggestionIndex, timers,
                   debounceTimerRef, lastInput>>
    /\ UNCHANGED <<rawData, allDoctors, isLoading, error, searchParams, fetchPc>>

InitNavbar == InitFrom(EmptyParams)

NextNavbar ==
    \/ fetchData
    \/ fetchSucceeded
    \/ urlSyncEffect
    \/ navbarSyncEffect
    \/ \E value \in NavbarInputs : handleInputChange(value)
    \/ timerFired
    \/ \E index \in 0..(MAX_SUGGESTIONS - 1) : handleSuggestionClick(index)
    \/ \E key \in Keys : handleKeyDown(key)
    \/ handleInputFocus
    \/ handleClickOutside
    \/ onClearFilters

SpecNavbar == InitNavbar /\ [][NextNavbar]_vars

----------------------------------------------------------------------------
(* Properties *)

DefaultFilterState == <<EmptyStr, Null, <<>>, <<>>>>

Mutators ==
    {"setSearchTerm", "setConsultationType", "toggleSpecialty",
     "toggleSortOption", "clearFilters", "updateSearchTermFromSuggestion"}

\* s with every occurrence of c removed
RECURSIVE Without(_, _)
Without(s, c) ==
    IF s = <<>> THEN <<>>
    ELSE IF Head(s) = c THEN Without(Tail(s), c)
    ELSE <<Head(s)>> \o Without(Tail(s), c)

\* C1: with active criteria [fees, experience], of two records of
\* filteredDoctors with equal parsedFees (finite or Infinity) the one with
\* the higher parsedExperience comes first.
C1_EqualFeesByExperience ==
    sortOptions = <<"fees", "experience">> =>
        \A i, j \in 1..Len(filteredDoctors) :
            (i < j /\ filteredDoctors[i].parsedFees = filteredDoctors[j].parsedFees)
                => filteredDoctors[i].parsedExperience
                       >= filteredDoctors[j].parsedExperience

\* C2: toggleSortOption(c) removes c from the sequence when it is active,
\* keeping the other criteria in their order, and appends c as the last
\* element otherwise.
C2_ToggleSortOption ==
    [][\A c \in Criteria :
          (lastOp'.op = "toggleSortOption" /\ lastOp'.arg = c) =>
              sortOptions' = IF \E i \in 1..Len(sortOptions) : sortOptions[i] = c
                             THEN Without(sortOptions, c)
                             ELSE sortOptions \o <<c>>]_vars

C2_Witness ==
    /\ lastOp.op = "toggleSortOption"
    /\ lastOp.arg = "fees"
    /\ sortOptions = <<"experience">>
    /\ searchParams.sort = <<"fees", "experience">>

\* C3 as stated: for every reachable sort sequence s and criterion c,
\* toggleSortOption(c) twice in a row gives exactly s.
C3_ToggleTwiceRestores ==
    \A c \in Criteria : toggleSort(toggleSort(sortOptions, c), c) = sortOptions

\* C3 amended: toggleSortOption(c) twice in a row gives s when c is not
\* active in s, and s with c removed and then appended as the last element
\* when c is active in s.
C3_ToggleTwiceMovesLast ==
    \A c \in Criteria :
        toggleSort(toggleSort(sortOptions, c), c) =
            IF \E i \in 1..Len(sortOptions) : sortOptions[i] = c
            THEN Without(sortOptions, c) \o <<c>>
            ELSE sortOptions

C3_Witness ==
    /\ lastOp.op = "toggleSortOption"
    /\ lastOp.arg = "fees"
    /\ searchParams.sort = <<"experience">>
    /\ sortOptions = <<"experience", "fees">>

\* C4: in every reachable state each sort criterion occurs at most once in
\* sortOptions.
C4_CriteriaAtMostOnce ==
    \A i, j \in 1..Len(sortOptions) : sortOptions[i] = sortOptions[j] => i = j

\* C5: initialising the state from the query string the URL-sync effect
\* writes for a reachable state gives that state again (the specialties as
\* a set, the sort criteria as a sequence).
C5_UrlRoundTrip ==
    LET written == urlParamsOf(searchTerm, consultationType,
                               selectedSpecialties, sortOptions)
    IN  /\ initSearchTerm(written) = searchTerm
        /\ initConsultationType(written) = consultationType
        /\ Range(initSelectedSpecialties(written)) = Range(selectedSpecialties)
        /\ initSortOptions(written) = sortOptions

C5_Witness ==
    /\ lastOp.op = "urlSyncEffect"
    /\ searchTerm = <<" ">>
    /\ consultationType = "In Clinic"
    /\ selectedSpecialties = <<"ENT", "Dentist">>
    /\ sortOptions = <<"experience", "fees">>

C7_NavigationRestoresState ==
    lastOp.op = "navigate" =>
        /\ searchTerm = initSearchTerm(searchParams)
        /\ consultationType = initConsultationType(searchParams)
        /\ Range(selectedSpecialties) = Range(initSelectedSpecialties(searchParams))
        /\ sortOptions = initSortOptions(searchParams)

C9_ConsultationDomain ==
    consultationType \in ConsultationModes \cup {Null}

\* C10: clearFilters is one atomic reset: right after it the state is the
\* default state, and the next query string written to the URL has no
\* parameters.
C10_ClearFiltersAtomic ==
    /\ [](lastOp.op = "clearFilters" => FilterState = DefaultFilterState)
    /\ [][lastOp.op = "clearFilters" =>
             /\ lastOp'.op = "urlSyncEffect"
             /\ searchParams' = EmptyParams
             /\ FilterState' = DefaultFilterState]_vars

C10_Witness ==
    /\ lastOp.op = "clearFilters"
    /\ searchParams.search # <<>>
    /\ searchParams.consultation # <<>>
    /\ searchParams.specialty # <<>>
    /\ searchParams.sort # <<>>

\* name contains text, letter case ignored
NameContains(name, text) ==
    \E k \in 0..(Len(name) - Len(text)) :
        \A i \in 1..Len(text) : Lower(name[k + i]) = Lower(text[i])

\* the record offers the consultation mode
Offers(doc, mode) ==
    \/ mode = "Video Consult" /\ doc.video_consult
    \/ mode = "In Clinic" /\ doc.in_clinic

\* the record satisfies the three filter conditions of the state
Passes(doc) ==
    /\ Len(searchTerm) = 0 \/ NameContains(doc.name, searchTerm)
    /\ consultationType = Null \/ Offers(doc, consultationType)
    /\ \/ Len(selectedSpecialties) = 0
       \/ \E i \in 1..Len(doc.specialityNames), j \in 1..Len(selectedSpecialties) :
              doc.specialityNames[i] = selectedSpecialties[j]

\* C11: when no sort criterion is active, filteredDoctors is the
\* subsequence of allDoctors, in collection order, of the records that
\* satisfy all three conditions (search text empty or contained in the name
\* case-insensitively; no consultation filter or the record offers the mode;
\* no selected specialty or one of the record's specialties is selected).
C11_UnsortedIsFilteredSubsequence ==
    sortOptions = <<>> => filteredDoctors = SelectSeq(allDoctors, Passes)

C11_Witness ==
    /\ sortOptions = <<>>
    /\ searchTerm = <<"a">>
    /\ consultationType = "Video Consult"
    /\ selectedSpecialties = <<"ENT">>
    /\ Len(allDoctors) = 4
    /\ Len(filteredDoctors) = 2
    /\ \E i \in 1..4 : allDoctors[i].specialityNames = <<>>

\* the position of a record in allDoctors
PositionOf(doc) == CHOOSE i \in 1..Len(allDoctors) : allDoctors[i] = doc

\* the two records have the same key under every active criterion
EqualUnderActive(a, b) ==
    \A k \in 1..Len(sortOptions) :
        /\ sortOptions[k] = "fees" => a.parsedFees = b.parsedFees
        /\ sortOptions[k] = "experience" => a.parsedExperience = b.parsedExperience

\* C12: for every non-empty active sort sequence, filteredDoctors is a
\* permutation of the unsorted filtered list, and two records that compare
\* equal under every active criterion appear in the same relative order as
\* in allDoctors.
C12_SortStablePermutation ==
    sortOptions # <<>> =>
        LET unsorted == SelectSeq(allDoctors, Passes)
        IN  /\ Len(filteredDoctors) = Len(unsorted)
            /\ \A i \in 1..Len(unsorted) :
                   Cardinality({j \in 1..Len(filteredDoctors) :
                                   filteredDoctors[j] = unsorted[i]}) = 1
            /\ \A i, j \in 1..Len(filteredDoctors) :
                   (i < j /\ EqualUnderActive(filteredDoctors[i], filteredDoctors[j]))
                       => PositionOf(filteredDoctors[i]) < PositionOf(filteredDoctors[j])

C12_Witness ==
    /\ lastOp.op = "toggleSortOption"
    /\ sortOptions = <<"fees">>
    /\ Len(filteredDoctors) = 4
    /\ filteredDoctors # allDoctors
    /\ \E i \in 1..3 :
          /\ filteredDoctors[i].parsedFees = Num(300)
          /\ filteredDoctors[i + 1].parsedFees = Num(300)

\* the sort keys of a list of records
KeysOf(doctors) ==
    [i \in 1..Len(doctors) |->
        <<doctors[i].parsedFees, doctors[i].parsedExperience>>]

\* C13: whenever fees is the first active criterion, every record with a
\* finite parsed fee precedes every record with the Infinity fee and the
\* finite fees are ascending; fees [Infinity, 300, 300] with experiences
\* [10, 2, 8] under [fees, experience] give (300, 8), (300, 2),
\* (Infinity, 10).
C13_FeesFirstInfinityLast ==
    /\ (sortOptions # <<>> /\ sortOptions[1] = "fees") =>
           \A i, j \in 1..Len(filteredDoctors) :
               (i < j /\ filteredDoctors[j].parsedFees # Infinity) =>
                   /\ filteredDoctors[i].parsedFees # Infinity
                   /\ filteredDoctors[i].parsedFees[2] <= filteredDoctors[j].parsedFees[2]
    /\ ( /\ KeysOf(allDoctors) = <<<<Infinity, 10>>, <<Num(300), 2>>, <<Num(300), 8>>>>
         /\ Len(filteredDoctors) = 3
         /\ sortOptions = <<"fees", "experience">> ) =>
           KeysOf(filteredDoctors) = <<<<Num(300), 8>>, <<Num(300), 2>>, <<Infinity, 10>>>>

C13_Witness ==
    /\ KeysOf(allDoctors) = <<<<Infinity, 10>>, <<Num(300), 2>>, <<Num(300), 8>>>>
    /\ sortOptions = <<"fees", "experience">>
    /\ Len(filteredDoctors) = 3
    /\ filteredDoctors[3] = allDoctors[1]

\* C14: suggestions is empty when the search text is empty after trimming
\* white space; otherwise it is the first min(3, n) of the n records of
\* allDoctors whose name contains the search text case-insensitively, in
\* collection order, whatever the other filters and the sort criteria are.
C14_Suggestions ==
    LET matches == SelectSeq(allDoctors,
                     LAMBDA doc : NameContains(doc.name, searchTerm))
        n == Len(matches)
    IN  IF \A i \in 1..Len(searchTerm) : searchTerm[i] = " "
        THEN suggestions = <<>>
        ELSE /\ Len(suggestions) = (IF n < 3 THEN n ELSE 3)
             /\ \A i \in 1..Len(suggestions) : suggestions[i] = matches[i]

C14_Witness ==
    /\ searchTerm = <<"a">>
    /\ Len(SelectSeq(allDoctors, LAMBDA doc : NameContains(doc.name, searchTerm))) = 4
    /\ Len(suggestions) = 3
    /\ consultationType = "In Clinic"
    /\ selectedSpecialties # <<>>
    /\ sortOptions # <<>>
    /\ Len(filteredDoctors) = 1

\* C15: availableSpecialties is the duplicate-free, ascending sequence of
\* every specialty name occurring in a record of allDoctors, and no filter
\* mutator (search, consultation, specialty toggle, sort toggle, clear)
\* changes allDoctors, the only state it is computed from.
C15_AvailableSpecialties ==
    /\ [](/\ \A i, j \in 1..Len(availableSpecialties) :
                i < j => CodeUnitsLess(CodeUnits(availableSpecialties[i]),
                                       CodeUnits(availableSpecialties[j]))
          /\ {availableSpecialties[i] : i \in 1..Len(availableSpecialties)} =
                 UNION {{allDoctors[d].specialityNames[k] :
                            k \in 1..Len(allDoctors[d].specialityNames)} :
                        d \in 1..Len(allDoctors)})
    /\ [][lastOp'.op \in Mutators => allDoctors' = allDoctors]_vars

C15_Witness ==
    /\ lastOp.op = "toggleSpecialty"
    /\ Len(allDoctors) = 3
    /\ allDoctors[1].specialityNames = <<"ENT", "Cardiologist">>
    /\ allDoctors[2].specialityNames = <<"Dentist", "ENT">>
    /\ availableSpecialties = <<"Cardiologist", "Dentist", "ENT">>
    /\ selectedSpecialties = <<"ENT">>

\* the text contains no decimal digit
NoDigit(text) == \A i \in 1..Len(text) : ~IsDigit(text[i])

\* C16: after a successful load allDoctors has one record per fetched raw
\* record, with the same identifier and in the same order; a fee or
\* experience text that cannot be parsed never makes the normalisation of
\* its record or of the batch fail: a body whose records all carry their
\* fields is loaded without error, the unparseable texts giving the
\* sentinels.
C16_OneRecordPerRawRecord ==
    (\A i \in 1..Len(rawData) : "specialities" \in DOMAIN rawData[i]) =>
        /\ Len(allDoctors) = Len(rawData)
        /\ \A i \in 1..Len(rawData) :
              /\ allDoctors[i].id = rawData[i].id
              /\ NoDigit(rawData[i].fees) => allDoctors[i].parsedFees = Infinity
              /\ NoDigit(rawData[i].experience) => allDoctors[i].parsedExperience = 0
        /\ rawData # <<>> => error = Null

C16_Witness ==
    /\ lastOp.op = "fetchSucceeded"
    /\ Len(rawData) = 2
    /\ rawData[1].fees = <<"F", "r", "e", "e">>
    /\ rawData[2].fees = <<>>
    /\ allDoctors[1].id = "4"
    /\ allDoctors[2].id = "3"

RECURSIVE Pow10(_)
Pow10(k) == IF k = 0 THEN 1 ELSE 10 * Pow10(k - 1)

\* the number written by a run of decimal digits
RECURSIVE Decimal(_)
Decimal(ds) ==
    IF ds = <<>> THEN 0
    ELSE DigitValue(Head(ds)) * Pow10(Len(ds) - 1) + Decimal(Tail(ds))

\* the decimal digits of a text, in order
DigitsOf(text) == SelectSeq(text, IsDigit)

\* C17: parseFee returns n for every non-empty text made only of the
\* decimal digits of n, returns Infinity for the empty text and for every
\* text containing no digit, and ignores the non-digit characters that are
\* currency symbols, spaces, thousands separators or letters: a text
\* without a decimal point has the value of its digits ("₹ 500" gives 500,
\* "1,200" gives 1200).
C17_ParseFee ==
    \A i \in 1..Len(allDoctors) :
        LET text == rawData[i].fees
            fee == allDoctors[i].parsedFees
        IN  /\ (text # <<>> /\ DigitsOf(text) = text) => fee = Num(Decimal(text))
            /\ NoDigit(text) => fee = Infinity
            /\ (~NoDigit(text) /\ \A k \in 1..Len(text) : text[k] # ".") =>
                   fee = Num(Decimal(DigitsOf(text)))
            /\ text = <<"₹", " ", "5", "0", "0">> => fee = Num(500)
            /\ text = <<"1", ",", "2", "0", "0">> => fee = Num(1200)

C17_Witness ==
    /\ lastOp.op = "fetchSucceeded"
    /\ rawData[1].fees = <<"₹", " ", "5", "0", "0">>
    /\ allDoctors[1].parsedFees = Num(500)

\* text[a..b] is the first maximal run of decimal digits of text
FirstMaximalRun(text, a, b) ==
    /\ a <= b
    /\ \A k \in a..b : IsDigit(text[k])
    /\ \A k \in 1..(a - 1) : ~IsDigit(text[k])
    /\ b = Len(text) \/ ~IsDigit(text[b + 1])

\* C18: parseExperience returns the value of the first maximal run of
\* decimal digits of the text, and 0 when the text is empty or contains no
\* digit; the result is a non-negative integer.
C18_ParseExperience ==
    \A i \in 1..Len(allDoctors) :
        LET text == rawData[i].experience
            exp == allDoctors[i].parsedExperience
        IN  /\ exp \in Nat
            /\ NoDigit(text) => exp = 0
            /\ \A a, b \in 1..Len(text) :
                   FirstMaximalRun(text, a, b) => exp = Decimal(SubSeq(text, a, b))

C18_Witness ==
    /\ lastOp.op = "fetchSucceeded"
    /\ rawData[1].experience = <<"y", "1", "5">>
    /\ allDoctors[1].parsedExperience = 15

\* C19: the collection is fetched at most once per session: a fetch starts
\* only in the mount effect, the effect never runs again after a filter
\* operation or a failure, and allDoctors is assigned at most once (by the
\* one step that completes the fetch successfully).
C19_FetchAtMostOnce ==
    [][/\ lastOp'.op = "fetchData" => fetchPc = "mount"
       /\ fetchPc # "mount" => fetchPc' # "mount"
       /\ fetchPc = "done" => fetchPc' = "done"
       /\ lastOp'.op = "fetchSucceeded" => (fetchPc = "awaiting" /\ fetchPc' = "done")
       /\ allDoctors' # allDoctors => lastOp'.op = "fetchSucceeded"]_vars

C19_Witness ==
    /\ lastOp.op = "toggleSpecialty"
    /\ error = ErrorMessage("network")
    /\ fetchPc = "done"
    /\ selectedSpecialties = <<"ENT">>

\* C20: when the fetch target is not configured, the request fails or the
\* status is not a success, the load ends with error a non-null message,
\* isLoading false and allDoctors empty, and no later step clears the error
\* or fills allDoctors.
C20_FailureIsTerminal ==
    /\ []((\/ lastOp.op = "fetchFailed"
           \/ lastOp.op = "fetchData" /\ lastOp.arg = "config") => error # Null)
    /\ [](error # Null =>
              (~isLoading /\ allDoctors = <<>> /\ fetchPc = "done"))
    /\ [][error # Null => (error' = error /\ allDoctors' = allDoctors)]_vars

C20_Witness ==
    /\ lastOp.op = "clearFilters"
    /\ error = ErrorMessage("status")
    /\ ~isLoading
    /\ allDoctors = <<>>

\* C21: in every state in which the fetch has not completed, allDoctors is
\* empty, isLoading is true, error is null and the doctor list shows the
\* loading state, never the "No Doctors Found" state or the error state,
\* whatever filter operations were performed meanwhile.
C21_LoadingUntilFetchCompletes ==
    fetchPc # "done" =>
        /\ allDoctors = <<>>
        /\ isLoading
        /\ error = Null
        /\ doctorListContent = "loading"

C21_Witness ==
    /\ fetchPc = "awaiting"
    /\ lastOp.op = "setConsultationType"
    /\ searchTerm = <<"a">>
    /\ selectedSpecialties = <<"ENT">>
    /\ doctorListContent = "loading"

\* C22: at most one debounce timer is pending at any time; an input change
\* cancels the pending timer and leaves its own as the only one; a timer
\* that fires passes the value of the most recent input change to
\* onSearchChange, so a value replaced within the delay is never passed.
C22_SingleDebounceTimer ==
    /\ [](Len(timers) <= 1)
    /\ [][/\ lastOp'.op = "inputChange" => timers' = <<lastOp'.arg>>
          /\ lastOp'.op = "timerFired" =>
                 (searchTerm' = lastInput /\ timers' = <<>>)]_vars

C22_Witness ==
    /\ lastOp.op = "inputChange"
    /\ lastOp.arg = <<"b">>
    /\ searchTerm = <<"a">>
    /\ timers = << <<"b">> >>
    /\ debounceTimerRef = "pending"

Submits == {"enterSubmit", "suggestionSubmit"}

\* C23: a submission (Enter with no active suggestion, click or Enter on a
\* suggestion) cancels the pending debounce timer and sets the search term
\* to the submitted value in the same step; a timer is pending afterwards
\* only through a later input change, so no debounced call of an earlier
\* input changes the search term.
C23_SubmitCancelsDebounce ==
    [][/\ lastOp'.op \in Submits =>
             (timers' = <<>> /\ searchTerm' = lastOp'.arg)
       /\ (timers = <<>> /\ timers' # <<>>) => lastOp'.op = "inputChange"
       /\ searchTerm' # searchTerm =>
             lastOp'.op \in Submits \cup {"timerFired", "clearFilters"}]_vars

C23_Witness ==
    /\ lastOp.op = "suggestionSubmit"
    /\ debounceTimerRef = "cleared"
    /\ lastInput = <<"b">>
    /\ searchTerm = <<"A", "b">>
    /\ timers = <<>>

\* C24: after clearFilters the search term stays empty until the user next
\* changes the search input or submits a search: a debounce timer pending
\* when clearFilters ran does not later set the search term.
C24_ClearedSearchStaysEmpty ==
    searchCleared => searchTerm = EmptyStr

\* C25: in every reachable Navbar state activeSuggestionIndex is -1 or a
\* valid index into the current suggestions list.
C25_ActiveIndexValid ==
    \/ activeSuggestionIndex = -1
    \/ activeSuggestionIndex >= 0 /\ activeSuggestionIndex < Len(suggestions)

\* C26: whenever no debounce timer is pending and all effects have run, the
\* text shown in the search input equals the hook's searchTerm.
C26_InputShowsSearchTerm ==
    (timers = <<>> /\ ~navbarSyncPending /\ ~syncPending /\ fetchPc # "mount") =>
        localSearchTerm = searchTerm

C26_Witness ==
    /\ lastOp.op = "navbarSyncEffect"
    /\ searchCleared
    /\ lastInput = <<"a">>
    /\ localSearchTerm = EmptyStr
    /\ timers = <<>>
    /\ ~syncPending

\* C27: provided the fetch eventually resolves or rejects, isLoading
\* eventually becomes false on every path (missing fetch target, network
\* failure, non-success status, unreadable body, normalisation throwing,
\* success) and never becomes true again.
C27_LoadingEnds ==
    /\ <>(~isLoading)
    /\ [][~isLoading => ~isLoading']_vars

C27_Witness ==
    /\ lastOp.op = "processingFailed"
    /\ ~isLoading
    /\ error = ErrorMessage("process")
    /\ fetchPc = "done"

\* C28: whenever the search text is non-empty, the consultation filter is
\* none, no specialty is selected and no sort criterion is active,
\* suggestions is the first min(3, n) of the n records of filteredDoctors,
\* also for search texts made of or padded with white space.
C28_SuggestionsPrefixOfFiltered ==
    (/\ searchTerm # EmptyStr
     /\ consultationType = Null
     /\ selectedSpecialties = <<>>
     /\ sortOptions = <<>>) =>
        LET n == Len(filteredDoctors)
        IN  suggestions = SubSeq(filteredDoctors, 1, IF n < 3 THEN n ELSE 3)

\* the characters of text that are decimal digits or '.', in order
DigitsAndPoints(text) ==
    SelectSeq(text, LAMBDA c : c \in {"0", "1", "2", "3", "4", "5", "6", "7", "8", "9", "."})

\* C29: parseFee returns Infinity exactly when the fee text, after removing
\* every character other than decimal digits and '.', is empty or begins
\* with '.'; otherwise it returns the value of the digit run that precedes
\* the first '.' of that remainder ("1,200.50" gives 1200, "Rs. 500" gives
\* Infinity although it contains digits).
C29_ParseFeeDecimalPoint ==
    \A i \in 1..Len(allDoctors) :
        LET text == rawData[i].fees
            fee == allDoctors[i].parsedFees
            rest == DigitsAndPoints(text)
            points == {k \in 1..Len(rest) : rest[k] = "."}
            run == IF points = {} THEN rest
                   ELSE SubSeq(rest, 1, (CHOOSE k \in points :
                                            \A j \in points : k <= j) - 1)
            sentinel == rest = <<>> \/ rest[1] = "."
        IN  /\ fee = Infinity <=> sentinel
            /\ ~sentinel => fee = Num(Decimal(run))
            /\ text = <<"1", ",", "2", "0", "0", ".", "5", "0">> => fee = Num(1200)
            /\ text = <<"R", "s", ".", " ", "5", "0", "0">> => fee = Infinity

C29_Witness ==
    /\ lastOp.op = "fetchSucceeded"
    /\ Len(allDoctors) = 1
    /\ rawData[1].fees = <<"R", "s", ".", " ", "5", "0", "0">>
    /\ allDoctors[1].parsedFees = Infinity

\* C30: each mutator changes only its own part of the state: setSearchTerm
\* and updateSearchTermFromSuggestion only the search text, which becomes
\* the argument; setConsultationType only the consultation filter;
\* toggleSpecialty only the specialty set, removing the name if present and
\* adding it otherwise; toggleSortOption only the sort sequence; none of
\* them, nor clearFilters, changes allDoctors, isLoading or error.
C30_MutatorFrames ==
    [][/\ lastOp'.op \in {"setSearchTerm", "updateSearchTermFromSuggestion"} =>
              /\ searchTerm' = lastOp'.arg
              /\ consultationType' = consultationType
              /\ selectedSpecialties' = selectedSpecialties
              /\ sortOptions' = sortOptions
       /\ lastOp'.op = "setConsultationType" =>
              /\ consultationType' = lastOp'.arg
              /\ searchTerm' = searchTerm
              /\ selectedSpecialties' = selectedSpecialties
              /\ sortOptions' = sortOptions
       /\ lastOp'.op = "toggleSpecialty" =>
              /\ Range(selectedSpecialties') =
                     (IF lastOp'.arg \in Range(selectedSpecialties)
                      THEN Range(selectedSpecialties) \ {lastOp'.arg}
                      ELSE Range(selectedSpecialties) \cup {lastOp'.arg})
              /\ searchTerm' = searchTerm
              /\ consultationType' = consultationType
              /\ sortOptions' = sortOptions
       /\ lastOp'.op = "toggleSortOption" =>
              /\ searchTerm' = searchTerm
              /\ consultationType' = consultationType
              /\ selectedSpecialties' = selectedSpecialties
       /\ lastOp'.op \in Mutators =>
              /\ allDoctors' = allDoctors
              /\ isLoading' = isLoading
              /\ error' = error]_vars

C30_Witness ==
    /\ lastOp.op = "toggleSpecialty"
    /\ lastOp.arg = "Dentist"
    /\ selectedSpecialties = <<"ENT">>
    /\ searchTerm = <<"a">>
    /\ consultationType = "In Clinic"
    /\ sortOptions = <<"fees">>
    /\ allDoctors # <<>>
    /\ ~isLoading

====
